---- MODULE Spec2Model ----
(***************************************************************************)
(* Model of the analytics router (src/routers/analytics.py) and of the     *)
(* tables it works on (src/models/analytics.py).                           *)
(*                                                                         *)
(* submit_test is modelled statement group by statement group, one action  *)
(* per group, so that calls running in different server workers can        *)
(* interleave at their database statements.  Every worker owns one         *)
(* SQLAlchemy session: rows it has added or changed stay in the session    *)
(* until db.commit() and are dropped when the call ends without a commit.  *)
(* get_student_performance is modelled by its two queries, one action      *)
(* each.                                                                   *)
(*                                                                         *)
(* Numbers: Python floats are modelled bit for bit (see the float          *)
(* operators below); timestamps are whole hours; an attribute or column    *)
(* that holds None is <<>> and one that holds v is <<v>>.                  *)
(***************************************************************************)
EXTENDS Integers, Sequences, FiniteSets, TLC

VARIABLES now, student_analytics, test_results, test_questions, pc, session

vars == <<now, student_analytics, test_results, test_questions, pc, session>>

(***************************************************************************)
(* Bounds of the model.                                                    *)
(***************************************************************************)
MaxQuestions == 2
MaxStoredQuestions == 3
MaxWindowTests == 7
MaxRaceTests == 2
MaxTime == 26
MaxAttempts == 2
MaxReportTests == 11
MaxFrameTests == 2
MaxScoreQuestions == 3
MaxTopicQuestions == 10
MaxTopicStored == 30

(***************************************************************************)
(* Program constants.                                                      *)
(***************************************************************************)
PreviousLimit == 5
WeakBelow == 70
StrongFrom == 90
StreakWindowHours == 24
ReportLimit == 10

\* the clock moves in steps of just over half a streak window
TickHours == StreakWindowHours \div 2 + 1

Students == {1}
AllStudents == {1, 2}
Tests == {7}
Topics == {"algebra", "geometry"}
Workers == {1, 2}

None == <<>>
Some(x) == <<x>>
IsNone(o) == o = <<>>
Val(o) == o[1]

(***************************************************************************)
(* Python float arithmetic: IEEE 754 binary64, round to nearest, ties to   *)
(* even.  A natural number is the sequence of its digits to the base       *)
(* 2^15, least significant first, <<>> for 0.  A float that is not 0.0 is  *)
(* <<m, e>>, m a natural number of exactly 53 bits and e an integer,       *)
(* standing for m * 2^e; 0.0 is <<<<>>, 0>>.  The floats of the program    *)
(* are never negative, infinite or subnormal.                              *)
(***************************************************************************)
LimbBits == 15
Base == 2 ^ LimbBits
MantissaBits == 53

RECURSIVE Trim(_)
Trim(a) ==
    IF a # <<>> /\ a[Len(a)] = 0 THEN Trim(SubSeq(a, 1, Len(a) - 1)) ELSE a

RECURSIVE BigAddCarry(_, _, _)
BigAddCarry(a, b, carry) ==
    IF a = <<>> /\ b = <<>>
    THEN IF carry = 0 THEN <<>> ELSE <<carry>>
    ELSE LET x == IF a = <<>> THEN 0 ELSE Head(a)
             y == IF b = <<>> THEN 0 ELSE Head(b)
             sum == x + y + carry
         IN <<sum % Base>> \o
                BigAddCarry(IF a = <<>> THEN <<>> ELSE Tail(a),
                            IF b = <<>> THEN <<>> ELSE Tail(b),
                            sum \div Base)

BigAdd(a, b) == BigAddCarry(a, b, 0)

RECURSIVE BigMulCarry(_, _, _)
BigMulCarry(a, k, carry) ==
    IF a = <<>>
    THEN IF carry = 0 THEN <<>> ELSE <<carry>>
    ELSE LET product == Head(a) * k + carry
         IN <<product % Base>> \o BigMulCarry(Tail(a), k, product \div Base)

\* a * k for 0 <= k < Base
BigMulSmall(a, k) == Trim(BigMulCarry(a, k, 0))

\* <<digits of (rem * Base^Len(a) + a) \div k, (the same) % k>>
RECURSIVE BigDivRem(_, _, _)
BigDivRem(a, k, rem) ==
    IF a = <<>> THEN <<<<>>, rem>>
    ELSE LET cur == rem * Base + a[Len(a)]
             rest == BigDivRem(SubSeq(a, 1, Len(a) - 1), k, cur % k)
         IN <<Append(rest[1], cur \div k), rest[2]>>

\* <<a \div k, a % k>> for 0 < k <= Base
BigDiv(a, k) == LET d == BigDivRem(a, k, 0) IN <<Trim(d[1]), d[2]>>

\* a * 2^n
BigShl(a, n) ==
    IF a = <<>> THEN <<>>
    ELSE [i \in 1..(n \div LimbBits) |-> 0] \o BigMulSmall(a, 2 ^ (n % LimbBits))

\* a \div 2^n, and whether a bit that is 1 was shifted out
BigShr(a, n) ==
    LET limbs == IF n \div LimbBits < Len(a) THEN n \div LimbBits ELSE Len(a)
        d == BigDiv(SubSeq(a, limbs + 1, Len(a)), 2 ^ (n % LimbBits))
    IN [q |-> d[1],
        sticky |-> d[2] # 0 \/ \E i \in 1..limbs : a[i] # 0]

RECURSIVE BitsOf(_)
BitsOf(x) == IF x = 0 THEN 0 ELSE 1 + BitsOf(x \div 2)

BitLen(a) ==
    IF a = <<>> THEN 0 ELSE LimbBits * (Len(a) - 1) + BitsOf(a[Len(a)])

IsOdd(a) == a # <<>> /\ a[1] % 2 = 1

\* a < b
BigLess(a, b) ==
    \/ Len(a) < Len(b)
    \/ /\ Len(a) = Len(b)
       /\ \E i \in DOMAIN a :
             /\ a[i] < b[i]
             /\ \A j \in DOMAIN a : j > i => a[j] = b[j]

FloatZero == <<<<>>, 0>>

\* the float nearest to n * 2^e, or to a number just above it if sticky;
\* sticky is only given with an n of more than MantissaBits + 1 bits
RoundNat(n, e, sticky) ==
    LET len == BitLen(n)
    IN IF n = <<>> THEN FloatZero
       ELSE IF len <= MantissaBits
       THEN <<BigShl(n, MantissaBits - len), e - (MantissaBits - len)>>
       ELSE LET sh == len - MantissaBits
                wide == BigShr(n, sh - 1)
                q == BigDiv(wide.q, 2)[1]
                up == /\ IsOdd(wide.q)
                      /\ (wide.sticky \/ sticky \/ IsOdd(q))
                rounded == IF up THEN BigAdd(q, <<1>>) ELSE q
            IN IF BitLen(rounded) > MantissaBits
               THEN <<BigDiv(rounded, 2)[1], e + sh + 1>>
               ELSE <<rounded, e + sh>>

\* float(k) for 0 <= k < Base
Float(k) == RoundNat(Trim(<<k>>), 0, FALSE)

\* c / t of two ints, 0 <= c < Base and 0 < t < Base
TrueDiv(c, t) ==
    LET d == BigDiv(BigShl(Trim(<<c>>), 5 * LimbBits), t)
    IN RoundNat(d[1], 0 - 5 * LimbBits, d[2] # 0)

\* x * k for a float x and an int 0 <= k < Base
FloatMulInt(x, k) == RoundNat(BigMulSmall(x[1], k), x[2], FALSE)

\* x / k for a float x and an int 0 < k < Base
FloatDivInt(x, k) ==
    LET d == BigDiv(BigShl(x[1], 2 * LimbBits), k)
    IN RoundNat(d[1], x[2] - 2 * LimbBits, d[2] # 0)

\* x + y
FloatAdd(x, y) ==
    IF x = FloatZero THEN y
    ELSE IF y = FloatZero THEN x
    ELSE LET lo == IF x[2] < y[2] THEN x[2] ELSE y[2]
         IN RoundNat(BigAdd(BigShl(x[1], x[2] - lo), BigShl(y[1], y[2] - lo)),
                     lo, FALSE)

\* x < y
FloatLess(x, y) ==
    IF y = FloatZero THEN FALSE
    ELSE IF x = FloatZero THEN TRUE
    ELSE \/ x[2] < y[2]
         \/ x[2] = y[2] /\ BigLess(x[1], y[1])

\* sum(xs): the floats are added to 0 from left to right
RECURSIVE FloatSumFrom(_, _)
FloatSumFrom(acc, s) ==
    IF s = <<>> THEN acc ELSE FloatSumFrom(FloatAdd(acc, Head(s)), Tail(s))

FloatSum(s) == FloatSumFrom(FloatZero, s)

\* sum(xs) / len(xs)
Mean(s) == FloatDivInt(FloatSum(s), Len(s))

Range(s) == {s[i] : i \in DOMAIN s}

RECURSIVE SeqsUpTo(_, _)
SeqsUpTo(S, n) ==
    IF n = 0 THEN {<<>>}
    ELSE LET shorter == SeqsUpTo(S, n - 1)
         IN shorter \cup {Append(q, x) : q \in {r \in shorter : Len(r) = n - 1}, x \in S}

(***************************************************************************)
(* Request bodies.                                                         *)
(***************************************************************************)
\* QuestionSubmission: question_text and subtopic are copied through
\* unread and are left out.
QuestionSubmission ==
    [correct_answer : {"a"}, student_answer : {"a", "b"}, topic : Topics]

\* generate_ai_insights reads questions[0].time_taken.  QuestionSubmission
\* declares no such field, so the lookup raises AttributeError on a parsed
\* request body; q0_time_taken is what the lookup finds on the first
\* question object: None for "no such attribute", a number for an object
\* that carries one.
SubmissionTimes == {30}
QuestionTimes == {None, Some(45)}

TestSubmission ==
    [questions : SeqsUpTo(QuestionSubmission, MaxQuestions),
     time_taken : SubmissionTimes,
     q0_time_taken : QuestionTimes]

\* one-question bodies on one topic, for long histories
ShortSubmission ==
    [questions : {<<q>> : q \in {x \in QuestionSubmission : x.topic = "algebra"}},
     time_taken : {30},
     q0_time_taken : {None, Some(30)}]

\* one question list, for histories longer than the report shows
OneSubmission == {b \in ShortSubmission : b.questions[1].student_answer = "a"}

\* right answers on topic, then wrong ones, asked questions in all
RECURSIVE Tally(_, _, _)
Tally(topic, right, asked) ==
    IF asked = 0 THEN <<>>
    ELSE <<[correct_answer |-> "a",
            student_answer |-> IF right > 0 THEN "a" ELSE "b",
            topic |-> topic]>>
         \o Tally(topic, IF right > 0 THEN right - 1 ELSE 0, asked - 1)

\* no question or MaxTopicQuestions questions on a topic, any number of
\* them right
Tallies(topic) ==
    {<<>>} \cup {Tally(topic, right, MaxTopicQuestions) : right \in 0..MaxTopicQuestions}

\* bodies that ask MaxTopicQuestions questions on one topic or on both, for
\* the accuracies around the thresholds
TopicSubmission ==
    [questions : {a \o g : a \in Tallies("algebra"), g \in Tallies("geometry")}
                     \ {<<>>},
     time_taken : {30},
     q0_time_taken : {None, Some(30)}]

\* bodies on one topic, for the scores
ScoredSubmission ==
    [questions : SeqsUpTo({x \in QuestionSubmission : x.topic = "algebra"},
                          MaxScoreQuestions),
     time_taken : {30},
     q0_time_taken : {None, Some(30)}]

(***************************************************************************)
(* Scoring: generate_ai_insights, lines 31-49.                             *)
(***************************************************************************)
IsCorrect(q) == q.student_answer = q.correct_answer

\* sum(1 for q in questions if q.student_answer == q.correct_answer)
CorrectCount(questions) ==
    Cardinality({i \in DOMAIN questions : IsCorrect(questions[i])})

\* line 33 without the factor
PercentUnscaled(correct, total) == TrueDiv(correct, total)

\* (correct_count / total_questions) * 100; the caller has total > 0
Percent(correct, total) == FloatMulInt(TrueDiv(correct, total), 100)

TopicIndex(perf, topic) ==
    IF \E i \in DOMAIN perf : perf[i].topic = topic
    THEN CHOOSE i \in DOMAIN perf : perf[i].topic = topic
    ELSE 0

QuestionDetail(q) ==
    [correct_answer |-> q.correct_answer,
     student_answer |-> q.student_answer,
     is_correct |-> IsCorrect(q)]

\* one pass of the loop body of lines 37-49
AddToTopic(perf, q) ==
    LET withTopic ==
            IF TopicIndex(perf, q.topic) = 0
            THEN Append(perf, [topic |-> q.topic, correct |-> 0, total |-> 0,
                               questions |-> <<>>])
            ELSE perf
        i == TopicIndex(withTopic, q.topic)
    IN [withTopic EXCEPT
          ![i].correct = @ + (IF IsCorrect(q) THEN 1 ELSE 0),
          ![i].total = @ + 1,
          ![i].questions = Append(@, QuestionDetail(q))]

RECURSIVE TopicPerformanceFrom(_, _)
TopicPerformanceFrom(perf, questions) ==
    IF questions = <<>> THEN perf
    ELSE TopicPerformanceFrom(AddToTopic(perf, Head(questions)), Tail(questions))

\* the dict topic_performance, as the list of its items in insertion order
TopicPerformance(questions) == TopicPerformanceFrom(<<>>, questions)

(***************************************************************************)
(* Historical context: generate_ai_insights, lines 52-59.                  *)
(***************************************************************************)
ScoresOf(rows) == [i \in DOMAIN rows |-> rows[i].score]

\* lines 52-59 with >= in place of >
HistoricalContextAtLeast(score, previous_results) ==
    IF previous_results = <<>>
    THEN [text |-> "", avg_score |-> None]
    ELSE LET avg_score == Mean(ScoresOf(previous_results))
         IN [text |-> IF ~FloatLess(score, avg_score) THEN "above" ELSE "below",
             avg_score |-> Some(avg_score)]

\* lines 52-59
HistoricalContext(score, previous_results) ==
    IF previous_results = <<>>
    THEN [text |-> "", avg_score |-> None]
    ELSE LET avg_score == Mean(ScoresOf(previous_results))
         IN [text |-> IF FloatLess(avg_score, score) THEN "above" ELSE "below",
             avg_score |-> Some(avg_score)]

(***************************************************************************)
(* Queries.                                                                *)
(***************************************************************************)
\* order_by(TestResult.completed_at.desc()); rows stamped in the same hour
\* are told apart by their id, which grows with the insertion time
Later(a, b) ==
    \/ a.completed_at > b.completed_at
    \/ a.completed_at = b.completed_at /\ a.id > b.id

RECURSIVE MostRecentFirst(_)
MostRecentFirst(rows) ==
    IF rows = {} THEN <<>>
    ELSE LET top == CHOOSE a \in rows : \A b \in rows \ {a} : Later(a, b)
         IN <<top>> \o MostRecentFirst(rows \ {top})

Limit(s, n) == SubSeq(s, 1, IF Len(s) < n THEN Len(s) ELSE n)

\* db.query(TestResult).filter(student_id == ...).order_by(...).limit(n).all()
RecentResults(rows, student_id, n) ==
    Limit(MostRecentFirst({r \in rows : r.student_id = student_id}), n)

\* db.query(StudentAnalytics).filter(student_id == ...).first()
FirstAnalytics(rows, student_id) ==
    LET found == {r \in rows : r.student_id = student_id}
    IN IF found = {} THEN None ELSE Some(CHOOSE r \in found : TRUE)

(***************************************************************************)
(* Rows and objects.                                                       *)
(***************************************************************************)
\* StudentAnalytics(student_id=...): column defaults are applied by the
\* INSERT, so every other attribute of the new object is None
NewAnalyticsObject(student_id) ==
    [student_id |-> student_id,
     total_tests_taken |-> None,
     average_test_score |-> None,
     weak_topics |-> None,
     strong_topics |-> None,
     learning_streak |-> None,
     last_activity |-> None]

\* the row with a learning_streak default of 1
DefaultAnalyticsRowStreakOne(student_id, at) ==
    [student_id |-> student_id,
     total_tests_taken |-> Some(0),
     average_test_score |-> Some(FloatZero),
     weak_topics |-> None,
     strong_topics |-> None,
     learning_streak |-> Some(1),
     last_activity |-> Some(at)]

\* the row an INSERT that names only student_id leaves in student_analytics
DefaultAnalyticsRow(student_id, at) ==
    [student_id |-> student_id,
     total_tests_taken |-> Some(0),
     average_test_score |-> Some(FloatZero),
     weak_topics |-> None,
     strong_topics |-> None,
     learning_streak |-> Some(0),
     last_activity |-> Some(at)]

EmptySession ==
    [student_id |-> 0,
     test_id |-> 0,
     submission |-> None,
     attempt |-> 0,
     before |-> None,
     in_transaction |-> FALSE,
     previous_results |-> <<>>,
     prompt |-> None,
     insights |-> None,
     test_result |-> None,
     questions |-> <<>>,
     loaded |-> None,
     analytics |-> None,
     outcome |-> "",
     response |-> None]

CommittedIds == {r.id : r \in test_results}

PendingIds ==
    {Val(session[w].test_result).id :
        w \in {v \in Workers : ~IsNone(session[v].test_result)}}

MaxOf(S) == IF S = {} THEN 0 ELSE CHOOSE m \in S : \A k \in S : k <= m

\* the primary key the INSERT hands out: above every committed id and not
\* held by an open transaction (ids a rollback gave up are handed out again)
NextId ==
    CHOOSE id \in (MaxOf(CommittedIds) + 1)..(MaxOf(CommittedIds) + 1 + Cardinality(Workers)) :
        /\ id \notin PendingIds
        /\ \A k \in (MaxOf(CommittedIds) + 1)..(id - 1) : k \in PendingIds

(***************************************************************************)
(* Analytics update: submit_test, lines 147-167.                           *)
(***************************************************************************)
\* line 148 without line 147
TouchWithoutCount(obj, at) ==
    [obj EXCEPT !.last_activity = Some(at)]

\* lines 147-148, for an object whose counter is not None
Touch(obj, at) ==
    [obj EXCEPT !.total_tests_taken = Some(Val(@) + 1),
                !.last_activity = Some(at)]

\* the average without the score of this submission
WindowAverageOfPrevious(previous_results, score) ==
    Mean(ScoresOf(previous_results))

\* lines 151-152
WindowAverage(previous_results, score) ==
    Mean(ScoresOf(previous_results) \o <<score>>)

\* lines 155-158: topic -> (correct / total) * 100, in insertion order
TopicStrengths(topic_performance) ==
    [i \in DOMAIN topic_performance |->
        [topic |-> topic_performance[i].topic,
         score |-> Percent(topic_performance[i].correct, topic_performance[i].total)]]

TopicsOf(strengths) == [i \in DOMAIN strengths |-> strengths[i].topic]

\* line 160
IsWeak(strength) == FloatLess(strength.score, Float(WeakBelow))
WeakTopics(strengths) == TopicsOf(SelectSeq(strengths, IsWeak))

\* line 161
IsStrong(strength) == ~FloatLess(strength.score, Float(StrongFrom))
StrongTopics(strengths) == TopicsOf(SelectSeq(strengths, IsStrong))

\* line 164: the condition reads the attribute of the object as it is then
StreakContinues(obj, at) ==
    /\ ~IsNone(obj.last_activity)
    /\ at - Val(obj.last_activity) <= StreakWindowHours

\* the branches of lines 164-167 taken the other way round
WithStreakInverted(obj, at) ==
    IF StreakContinues(obj, at)
    THEN [obj EXCEPT !.learning_streak = Some(1)]
    ELSE [obj EXCEPT !.learning_streak = Some(Val(@) + 1)]

\* lines 164-167, for an object whose streak is not None when it is added to
WithStreak(obj, at) ==
    IF StreakContinues(obj, at)
    THEN [obj EXCEPT !.learning_streak = Some(Val(@) + 1)]
    ELSE [obj EXCEPT !.learning_streak = Some(1)]

\* the update with the topic lists added to instead of replaced
UpdatedAnalyticsCumulative(obj, previous_results, insights, at) ==
    LET strengths == TopicStrengths(insights.topic_performance)
        kept(list) == IF IsNone(list) THEN <<>> ELSE Val(list)
        scored == [Touch(obj, at) EXCEPT
                     !.average_test_score =
                         Some(WindowAverage(previous_results, insights.score)),
                     !.weak_topics = Some(kept(@) \o WeakTopics(strengths)),
                     !.strong_topics = Some(kept(@) \o StrongTopics(strengths))]
    IN WithStreak(scored, at)

\* lines 147-167 as a whole
UpdatedAnalytics(obj, previous_results, insights, at) ==
    LET strengths == TopicStrengths(insights.topic_performance)
        scored == [Touch(obj, at) EXCEPT
                     !.average_test_score =
                         Some(WindowAverage(previous_results, insights.score)),
                     !.weak_topics = Some(WeakTopics(strengths)),
                     !.strong_topics = Some(StrongTopics(strengths))]
    IN WithStreak(scored, at)

\* the first statement of lines 147-167 that raises TypeError, if any
UpdateRaises(obj, at) ==
    \/ IsNone(obj.total_tests_taken)
    \/ /\ StreakContinues([obj EXCEPT !.last_activity = Some(at)], at)
       /\ IsNone(obj.learning_streak)

AnalyticsColumns ==
    {"total_tests_taken", "average_test_score", "weak_topics", "strong_topics",
     "learning_streak", "last_activity"}

\* the UPDATE the flush in db.commit() sends: it sets the columns whose value
\* differs from the value loaded, on the row as it is in the table by then
UpdatedRow(current, loaded, obj) ==
    [c \in DOMAIN current |->
        IF c \in AnalyticsColumns /\ obj[c] # loaded[c] THEN obj[c] ELSE current[c]]

(***************************************************************************)
(* The state after construction: empty tables, every worker idle.          *)
(***************************************************************************)
Init ==
    /\ now = 0
    /\ student_analytics = {}
    /\ test_results = {}
    /\ test_questions = {}
    /\ pc = [w \in Workers |-> "idle"]
    /\ session = [w \in Workers |-> EmptySession]

Tables == <<student_analytics, test_results, test_questions>>

Idle == \A w \in Workers : pc[w] = "idle"

InFlight == {w \in Workers : pc[w] # "idle"}

\* the clock; a call is short against one tick
Tick ==
    /\ Idle
    /\ now + TickHours <= MaxTime
    /\ now' = now + TickHours
    /\ UNCHANGED <<Tables, pc, session>>

\* the column without unique=True: every INSERT is accepted
UniqueStudentIdUnchecked(rows, student_id) == TRUE

\* student_id = Column(..., unique=True): the table accepts the INSERT of a
\* row for student_id
UniqueStudentId(rows, student_id) == \A r \in rows : r.student_id # student_id

\* Some other writer to the table inserts a row for a student, naming only
\* student_id; the table refuses it if the student has one.  No code of the
\* router can insert a row (see UpdateAnalytics), so the rows submit_test
\* finds come from outside it; they carry the column defaults.
CreateAnalyticsRow(student_id) ==
    /\ student_analytics' =
           IF UniqueStudentId(student_analytics, student_id)
           THEN student_analytics \cup {DefaultAnalyticsRow(student_id, now)}
           ELSE student_analytics
    /\ UNCHANGED <<now, test_results, test_questions, pc, session>>

\* an uncaught exception leaves submit_test
Raise(w, exception) ==
    /\ pc' = [pc EXCEPT ![w] = "failed"]
    /\ session' = [session EXCEPT ![w].outcome = exception]
    /\ UNCHANGED <<now, Tables>>

\* a request reaches worker w; before is history kept for the properties:
\* the tables as they were when the request was first sent
Begin(w, student_id, test_id, body, attempt) ==
    /\ pc' = [pc EXCEPT ![w] = "query_previous"]
    /\ session' = [session EXCEPT ![w] =
           [EmptySession EXCEPT !.student_id = student_id,
                                !.test_id = test_id,
                                !.submission = Some(body),
                                !.attempt = attempt,
                                !.before = IF attempt = 1
                                           THEN Some(Tables)
                                           ELSE session[w].before]]
    /\ UNCHANGED <<now, Tables>>

SubmitTest(w) ==
    /\ pc[w] = "idle"
    /\ \E student_id \in Students, test_id \in Tests, body \in TestSubmission :
           /\ Cardinality(test_questions) + Len(body.questions) <= MaxStoredQuestions
           /\ Begin(w, student_id, test_id, body, 1)

SubmitShort(w) ==
    /\ pc[w] = "idle"
    /\ Cardinality(test_results) < MaxWindowTests
    /\ \E student_id \in Students, test_id \in Tests, body \in ShortSubmission :
           Begin(w, student_id, test_id, body, 1)

SubmitRace(w) ==
    /\ pc[w] = "idle"
    /\ Cardinality(test_results) + Cardinality(InFlight) < MaxRaceTests
    /\ \E student_id \in Students, test_id \in Tests, body \in ShortSubmission :
           Begin(w, student_id, test_id, body, 1)

\* lines 104-106; the first statement of the session opens its transaction
QueryPrevious(w) ==
    /\ pc[w] = "query_previous"
    /\ pc' = [pc EXCEPT ![w] = "compose"]
    /\ session' = [session EXCEPT
           ![w].in_transaction = TRUE,
           ![w].previous_results =
               RecentResults(test_results, session[w].student_id, PreviousLimit)]
    /\ UNCHANGED <<now, Tables>>

\* generate_ai_insights, lines 31-80: the exception the statements before the
\* model call raise, "" if none
ComposeRaises(body) ==
    IF Len(body.questions) = 0 THEN "ZeroDivisionError"
    ELSE IF IsNone(body.q0_time_taken) THEN "AttributeError"
    ELSE ""

\* generate_ai_insights, lines 62-80: what the prompt is built from
Prompt(body, previous_results) ==
    LET score == Percent(CorrectCount(body.questions), Len(body.questions))
    IN [score |-> score,
        correct_count |-> CorrectCount(body.questions),
        total_questions |-> Len(body.questions),
        time_taken |-> Val(body.q0_time_taken),
        topic_performance |-> TopicPerformance(body.questions),
        historical_context |-> HistoricalContext(score, previous_results)]

\* generate_ai_insights, lines 89-94
Insights(body, text) ==
    [analysis |-> text,
     topic_performance |-> TopicPerformance(body.questions),
     score |-> Percent(CorrectCount(body.questions), Len(body.questions)),
     time_taken |-> Val(body.q0_time_taken)]

\* lines 112-121
NewTestResult(id, student_id, test_id, body, insights, at) ==
    [id |-> id,
     student_id |-> student_id,
     test_id |-> test_id,
     score |-> insights.score,
     completed_at |-> at,
     ai_feedback |-> insights,
     total_questions |-> Len(body.questions),
     correct_answers |-> CorrectCount(body.questions),
     topics_summary |-> insights.topic_performance,
     time_taken |-> body.time_taken]

\* generate_ai_insights up to the model call
Compose(w) ==
    /\ pc[w] = "compose"
    /\ LET body == Val(session[w].submission)
       IN IF ComposeRaises(body) # ""
          THEN Raise(w, ComposeRaises(body))
          ELSE /\ pc' = [pc EXCEPT ![w] = "model"]
               /\ session' = [session EXCEPT ![w].prompt =
                      Some(Prompt(body, session[w].previous_results))]
               /\ UNCHANGED <<now, Tables>>

\* lines 82-94: the collaborator answers
ModelCallReturns(w) ==
    /\ pc[w] = "model"
    /\ pc' = [pc EXCEPT ![w] = "create_result"]
    /\ session' = [session EXCEPT ![w].insights =
           Some(Insights(Val(session[w].submission), "analysis"))]
    /\ UNCHANGED <<now, Tables>>

\* the collaborator raises, and the attempt is recorded all the same
ModelCallFailsKeepingResult(w) ==
    /\ pc[w] = "model"
    /\ pc' = [pc EXCEPT ![w] = "failed"]
    /\ session' = [session EXCEPT ![w].outcome = "ModelError"]
    /\ test_results' = test_results \cup
           {NewTestResult(NextId, session[w].student_id, session[w].test_id,
                          Val(session[w].submission),
                          [score |-> Val(session[w].prompt).score,
                           topic_performance |-> Val(session[w].prompt).topic_performance,
                           time_taken |-> Val(session[w].prompt).time_taken,
                           analysis |-> ""],
                          now)}
    /\ UNCHANGED <<now, student_analytics, test_questions>>

\* lines 82-87: the collaborator raises
ModelCallFails(w) ==
    /\ pc[w] = "model"
    /\ Raise(w, "ModelError")

\* the INSERT committed on the spot, db.commit() in the place of db.flush()
CreateTestResultCommitting(w) ==
    /\ pc[w] = "create_result"
    /\ pc' = [pc EXCEPT ![w] = "add_questions"]
    /\ session' = [session EXCEPT ![w].test_result =
           Some(NewTestResult(NextId, session[w].student_id, session[w].test_id,
                              Val(session[w].submission),
                              Val(session[w].insights), now))]
    /\ test_results' = test_results \cup {Val(session'[w].test_result)}
    /\ UNCHANGED <<now, student_analytics, test_questions>>

\* lines 112-123: the INSERT is sent inside the open transaction
CreateTestResult(w) ==
    /\ pc[w] = "create_result"
    /\ pc' = [pc EXCEPT ![w] = "add_questions"]
    /\ session' = [session EXCEPT ![w].test_result =
           Some(NewTestResult(NextId, session[w].student_id, session[w].test_id,
                              Val(session[w].submission),
                              Val(session[w].insights), now))]
    /\ UNCHANGED <<now, Tables>>

\* the question row without line 132: is_correct is left to its default
NewTestQuestionUnmarked(test_result_id, position, q) ==
    [test_result_id |-> test_result_id,
     position |-> position,
     correct_answer |-> q.correct_answer,
     student_answer |-> q.student_answer,
     is_correct |-> FALSE,
     topic |-> q.topic]

\* lines 127-135
NewTestQuestion(test_result_id, position, q) ==
    [test_result_id |-> test_result_id,
     position |-> position,
     correct_answer |-> q.correct_answer,
     student_answer |-> q.student_answer,
     is_correct |-> IsCorrect(q),
     topic |-> q.topic]

\* lines 126-141: the questions are added, then the query flushes them and
\* reads the student's committed analytics row
AddQuestions(w) ==
    /\ pc[w] = "add_questions"
    /\ pc' = [pc EXCEPT ![w] = "update"]
    /\ LET qs == Val(session[w].submission).questions
       IN session' = [session EXCEPT
              ![w].questions =
                  [i \in DOMAIN qs |->
                      NewTestQuestion(Val(session[w].test_result).id, i, qs[i])],
              ![w].loaded = FirstAnalytics(student_analytics, session[w].student_id)]
    /\ UNCHANGED <<now, Tables>>

\* lines 143-167
UpdateAnalytics(w) ==
    /\ pc[w] = "update"
    /\ LET obj == IF IsNone(session[w].loaded)
                  THEN NewAnalyticsObject(session[w].student_id)
                  ELSE Val(session[w].loaded)
       IN IF UpdateRaises(obj, now)
          THEN /\ pc' = [pc EXCEPT ![w] = "failed"]
               /\ session' = [session EXCEPT ![w].outcome = "TypeError",
                                             ![w].analytics = Some(obj)]
               /\ UNCHANGED <<now, Tables>>
          ELSE /\ pc' = [pc EXCEPT ![w] = "commit"]
               /\ session' = [session EXCEPT ![w].analytics =
                      Some(UpdatedAnalytics(obj, session[w].previous_results,
                                            Val(session[w].insights), now))]
               /\ UNCHANGED <<now, Tables>>

\* lines 171-181
Response(insights, analytics) ==
    [status |-> "success",
     insights |-> insights,
     analytics_summary |->
         [total_tests |-> analytics.total_tests_taken,
          average_score |-> analytics.average_test_score,
          learning_streak |-> analytics.learning_streak,
          weak_topics |-> analytics.weak_topics,
          strong_topics |-> analytics.strong_topics]]

\* the row the INSERT of a new object leaves: a column default replaces an
\* attribute that is None
InsertedAnalytics(obj, at) ==
    LET default == DefaultAnalyticsRow(obj.student_id, at)
    IN [c \in DOMAIN obj |-> IF IsNone(obj[c]) THEN default[c] ELSE obj[c]]

\* the student_analytics table after the flush of db.commit()
CommittedAnalytics(rows, loaded, obj, at) ==
    IF IsNone(loaded)
    THEN rows \cup {InsertedAnalytics(obj, at)}
    ELSE {IF r.student_id = obj.student_id THEN UpdatedRow(r, Val(loaded), obj) ELSE r :
            r \in rows}

\* line 169 as an upsert: the result replaces the student's earlier result
\* for the same test
CommitReplacing(w) ==
    /\ pc[w] = "commit"
    /\ IsNone(session[w].loaded) =>
           UniqueStudentId(student_analytics, session[w].student_id)
    /\ LET result == Val(session[w].test_result)
           replaced == {r \in test_results : /\ r.student_id = result.student_id
                                             /\ r.test_id = result.test_id}
       IN /\ test_results' = (test_results \ replaced) \cup {result}
          /\ test_questions' =
                 {q \in test_questions : \A r \in replaced : q.test_result_id # r.id}
                     \cup Range(session[w].questions)
    /\ student_analytics' =
           CommittedAnalytics(student_analytics, session[w].loaded,
                              Val(session[w].analytics), now)
    /\ pc' = [pc EXCEPT ![w] = "respond"]
    /\ session' = [session EXCEPT ![w].in_transaction = FALSE]
    /\ UNCHANGED now

\* line 169: everything the session holds becomes visible at once, the
\* transaction ends and the objects of the session expire; the flush of a
\* new analytics row the table refuses raises instead
Commit(w) ==
    /\ pc[w] = "commit"
    /\ IF /\ IsNone(session[w].loaded)
          /\ ~UniqueStudentId(student_analytics, session[w].student_id)
       THEN Raise(w, "IntegrityError")
       ELSE /\ test_results' = test_results \cup {Val(session[w].test_result)}
            /\ test_questions' = test_questions \cup Range(session[w].questions)
            /\ student_analytics' =
                   CommittedAnalytics(student_analytics, session[w].loaded,
                                      Val(session[w].analytics), now)
            /\ pc' = [pc EXCEPT ![w] = "respond"]
            /\ session' = [session EXCEPT ![w].in_transaction = FALSE]
            /\ UNCHANGED now

\* lines 171-181: the first attribute read of the expired analytics object
\* begins a transaction and loads the row as it is committed by then
\* (expire_on_commit is left at the default of sessionmaker)
Respond(w) ==
    /\ pc[w] = "respond"
    /\ pc' = [pc EXCEPT ![w] = "done"]
    /\ LET refreshed == FirstAnalytics(student_analytics, session[w].student_id)
       IN session' = [session EXCEPT
              ![w].in_transaction = TRUE,
              ![w].analytics = refreshed,
              ![w].outcome = "success",
              ![w].response =
                  Some(Response(Val(session[w].insights), Val(refreshed)))]
    /\ UNCHANGED <<now, Tables>>

\* the call is over: the session is closed, and what it had not committed
\* is rolled back with it
Return(w) ==
    /\ pc[w] \in {"done", "failed", "reported", "not_found"}
    /\ pc' = [pc EXCEPT ![w] = "idle"]
    /\ session' = [session EXCEPT ![w] = EmptySession]
    /\ UNCHANGED <<now, Tables>>

\* the client sends again a request the collaborator's failure ended
Retry(w) ==
    /\ pc[w] = "failed"
    /\ session[w].outcome = "ModelError"
    /\ session[w].attempt < MaxAttempts
    /\ Begin(w, session[w].student_id, session[w].test_id,
             Val(session[w].submission), session[w].attempt + 1)

(***************************************************************************)
(* get_student_performance, lines 183-233.                                 *)
(***************************************************************************)
\* lines 196-198 without .limit(10)
RecentTestsUnlimited(rows, student_id) ==
    MostRecentFirst({r \in rows : r.student_id = student_id})

\* lines 196-198
RecentTests(rows, student_id) == RecentResults(rows, student_id, ReportLimit)

\* lines 201-207: one entry of test_data
TestData(test) ==
    [date |-> test.completed_at,
     score |-> test.score,
     topics |-> TopicsOf(test.topics_summary),
     time_taken |-> test.time_taken,
     insights |-> test.ai_feedback.analysis]

\* lines 209-220: the figure drawn over test_data, None for an empty list
PerformanceChart(test_data) ==
    IF test_data # <<>>
    THEN Some([title |-> "Test Score Progression",
               x |-> [i \in DOMAIN test_data |-> test_data[i].date],
               y |-> [i \in DOMAIN test_data |-> test_data[i].score]])
    ELSE None

\* lines 222-233
Performance(analytics, test_data) ==
    [overall_stats |->
         [total_tests_taken |-> analytics.total_tests_taken,
          average_score |-> analytics.average_test_score,
          learning_streak |-> analytics.learning_streak,
          weak_topics |-> analytics.weak_topics,
          strong_topics |-> analytics.strong_topics,
          last_activity |-> analytics.last_activity],
     recent_tests |-> test_data,
     performance_chart |-> PerformanceChart(test_data)]

\* a GET /student-performance/{student_id} reaches worker w
GetStudentPerformance(w, student_id) ==
    /\ pc[w] = "idle"
    /\ pc' = [pc EXCEPT ![w] = "report_analytics"]
    /\ session' = [session EXCEPT ![w] =
           [EmptySession EXCEPT !.student_id = student_id,
                                !.before = Some(Tables)]]
    /\ UNCHANGED <<now, Tables>>

\* lines 188-193 with a get-or-create in place of the 404
ReportAnalyticsCreating(w) ==
    /\ pc[w] = "report_analytics"
    /\ LET found == FirstAnalytics(student_analytics, session[w].student_id)
           row == DefaultAnalyticsRow(session[w].student_id, now)
       IN /\ student_analytics' =
                 IF IsNone(found) THEN student_analytics \cup {row}
                 ELSE student_analytics
          /\ pc' = [pc EXCEPT ![w] = "report_recent"]
          /\ session' = [session EXCEPT
                 ![w].in_transaction = TRUE,
                 ![w].loaded = IF IsNone(found) THEN Some(row) ELSE found]
    /\ UNCHANGED <<now, test_results, test_questions>>

\* lines 188-193
ReportAnalytics(w) ==
    /\ pc[w] = "report_analytics"
    /\ LET found == FirstAnalytics(student_analytics, session[w].student_id)
       IN IF IsNone(found)
          THEN /\ pc' = [pc EXCEPT ![w] = "not_found"]
               /\ session' = [session EXCEPT ![w].in_transaction = TRUE,
                                             ![w].outcome = "NotFound"]
          ELSE /\ pc' = [pc EXCEPT ![w] = "report_recent"]
               /\ session' = [session EXCEPT ![w].in_transaction = TRUE,
                                             ![w].loaded = found]
    /\ UNCHANGED <<now, Tables>>

\* lines 195-233
ReportRecent(w) ==
    /\ pc[w] = "report_recent"
    /\ pc' = [pc EXCEPT ![w] = "reported"]
    /\ LET recent_tests == RecentTests(test_results, session[w].student_id)
           test_data == [i \in DOMAIN recent_tests |-> TestData(recent_tests[i])]
       IN session' = [session EXCEPT
              ![w].previous_results = recent_tests,
              ![w].outcome = "success",
              ![w].response =
                  Some(Performance(Val(session[w].loaded), test_data))]
    /\ UNCHANGED <<now, Tables>>

Report(w) ==
    \/ ReportAnalytics(w)
    \/ ReportRecent(w)

\* submit_test with the one body of OneSubmission
SubmitOne(w) ==
    /\ pc[w] = "idle"
    /\ Cardinality(test_results) < MaxReportTests
    /\ \E student_id \in Students, test_id \in Tests, body \in OneSubmission :
           Begin(w, student_id, test_id, body, 1)

\* submit_test for either student
SubmitAny(w) ==
    /\ pc[w] = "idle"
    /\ Cardinality(test_results) < MaxFrameTests
    /\ \E student_id \in AllStudents, test_id \in Tests, body \in ShortSubmission :
           Begin(w, student_id, test_id, body, 1)

\* submit_test with a body of ScoredSubmission, into empty result tables
SubmitScored(w) ==
    /\ pc[w] = "idle"
    /\ test_results = {}
    /\ \E student_id \in Students, test_id \in Tests, body \in ScoredSubmission :
           Begin(w, student_id, test_id, body, 1)

\* submit_test with a body of TopicSubmission
SubmitTopics(w) ==
    /\ pc[w] = "idle"
    /\ \E student_id \in Students, test_id \in Tests, body \in TopicSubmission :
           /\ Cardinality(test_questions) + Len(body.questions) <= MaxTopicStored
           /\ Begin(w, student_id, test_id, body, 1)

Handle(w) ==
    \/ QueryPrevious(w)
    \/ Compose(w)
    \/ ModelCallReturns(w)
    \/ ModelCallFails(w)
    \/ CreateTestResult(w)
    \/ AddQuestions(w)
    \/ UpdateAnalytics(w)
    \/ Commit(w)
    \/ Respond(w)
    \/ Return(w)
    \/ Retry(w)

Environment ==
    \/ Tick
    \/ \E student_id \in Students : CreateAnalyticsRow(student_id)

\* one worker, every request body up to MaxQuestions questions
Next ==
    \/ Environment
    \/ SubmitTest(1)
    \/ Handle(1)

Spec == Init /\ [][Next]_vars

\* one worker, long histories of one-question bodies
NextWindow ==
    \/ Environment
    \/ SubmitShort(1)
    \/ Handle(1)

SpecWindow == Init /\ [][NextWindow]_vars

\* two workers
NextRace ==
    \/ Environment
    \/ \E w \in Workers : SubmitRace(w) \/ Handle(w)

SpecRace == Init /\ [][NextRace]_vars

\* one worker, one student, more results than a report shows
NextReport ==
    \/ Environment
    \/ SubmitOne(1)
    \/ \E student_id \in Students : GetStudentPerformance(1, student_id)
    \/ Handle(1)
    \/ Report(1)

SpecReport == Init /\ [][NextReport]_vars

\* one worker, one stored result of up to MaxScoreQuestions questions
NextScore ==
    \/ Environment
    \/ SubmitScored(1)
    \/ Handle(1)

SpecScore == Init /\ [][NextScore]_vars

\* one worker, MaxTopicQuestions questions a topic, one day
NextTopics ==
    \/ \E student_id \in Students : CreateAnalyticsRow(student_id)
    \/ SubmitTopics(1)
    \/ Handle(1)

SpecTopics == Init /\ [][NextTopics]_vars

EnvironmentAll ==
    \/ Tick
    \/ \E student_id \in AllStudents : CreateAnalyticsRow(student_id)

\* one worker, two students
NextFrame ==
    \/ EnvironmentAll
    \/ SubmitAny(1)
    \/ \E student_id \in AllStudents : GetStudentPerformance(1, student_id)
    \/ Handle(1)
    \/ Report(1)

SpecFrame == Init /\ [][NextFrame]_vars

(***************************************************************************)
(* Properties.                                                             *)
(***************************************************************************)
Row(student_id) == Val(FirstAnalytics(student_analytics, student_id))

\* worker w has committed a call that found an analytics row
Succeeded(w) == pc[w] = "done" /\ ~IsNone(session[w].loaded)

\* hours between the last_activity the call found and the call
GapOf(w) == now - Val(Val(session[w].loaded).last_activity)

StreakFound(w) == Val(Val(session[w].loaded).learning_streak)

\* C1: a successful submit_test that arrives more than 24 hours after the
\* last_activity stored before the call sets learning_streak to 1.
C1_StreakResetsAfterADay ==
    \A w \in Workers :
        Succeeded(w) /\ GapOf(w) > StreakWindowHours
            => Val(Row(session[w].student_id).learning_streak) = 1

\* C2: a successful submit_test that arrives at most 24 hours after the
\* last_activity stored before the call raises learning_streak by exactly 1
\* over its value before the call.
C2_StreakGrowsWithinADay ==
    \A w \in Workers :
        Succeeded(w) /\ GapOf(w) <= StreakWindowHours
            => Val(Row(session[w].student_id).learning_streak) = StreakFound(w) + 1

C2_Witness ==
    \E w \in Workers :
        /\ Succeeded(w)
        /\ GapOf(w) > 0
        /\ GapOf(w) <= StreakWindowHours
        /\ StreakFound(w) > 0
        /\ Val(Row(session[w].student_id).learning_streak) = StreakFound(w) + 1

(***************************************************************************)
(* Concurrent calls.                                                       *)
(***************************************************************************)
Finished(w) == pc[w] = "done" /\ session[w].outcome = "success"

Smaller(a, b) == IF a < b THEN a ELSE b

\* average_test_score after the calls of first and second, had second begun
\* only after first had committed
SerialAverage(first, second) ==
    LET a == Val(session[first].test_result)
        b == Val(session[second].test_result)
        others == test_results \ {a, b}
    IN WindowAverage(RecentResults(others \cup {a}, a.student_id, PreviousLimit),
                     b.score)

\* the two workers hold finished calls for one student, and each call had
\* begun before the other committed
RanTogether(v, w) ==
    /\ v # w
    /\ Finished(v)
    /\ Finished(w)
    /\ session[v].student_id = session[w].student_id
    /\ ~IsNone(session[v].loaded)
    /\ ~IsNone(session[w].loaded)
    /\ Val(session[v].test_result) \notin Val(session[w].before)[2]
    /\ Val(session[w].test_result) \notin Val(session[v].before)[2]

\* C3: when two submit_test calls for one student run concurrently and both
\* succeed, total_tests_taken ends exactly 2 higher than before, and
\* average_test_score and learning_streak are those of the two calls run one
\* after the other in some order.
C3_NoLostUpdate ==
    \A v, w \in Workers :
        RanTogether(v, w) =>
            LET row == Row(session[v].student_id)
                found_v == Val(session[v].loaded)
                found_w == Val(session[w].loaded)
            IN /\ Val(row.total_tests_taken) =
                      Smaller(Val(found_v.total_tests_taken),
                              Val(found_w.total_tests_taken)) + 2
               /\ Val(row.learning_streak) =
                      Smaller(Val(found_v.learning_streak),
                              Val(found_w.learning_streak)) + 2
               /\ Val(row.average_test_score)
                      \in {SerialAverage(v, w), SerialAverage(w, v)}

(***************************************************************************)
(* One submission is one atomic unit.                                      *)
(***************************************************************************)
QuestionsOf(id) == {q \in test_questions : q.test_result_id = id}

\* the step is the commit of worker w's call: the tables gain the call's
\* TestResult, every one of its TestQuestion rows and its analytics update
WholeUnitAppears(w) ==
    LET result == Val(session[w].test_result)
    IN /\ result \notin test_results
       /\ test_results' = test_results \cup {result}
       /\ test_questions' = test_questions \cup Range(session[w].questions)
       /\ Cardinality(Range(session[w].questions)) = result.total_questions
       /\ Range(session[w].questions) \cap test_questions = {}
       /\ \E row \in student_analytics' :
              /\ row.student_id = session[w].student_id
              /\ row.total_tests_taken = Val(session[w].analytics).total_tests_taken
              /\ row.learning_streak = Val(session[w].analytics).learning_streak

\* every committed TestResult has all its TestQuestion rows, and every
\* committed TestQuestion its TestResult
UnitsWhole ==
    /\ \A r \in test_results : Cardinality(QuestionsOf(r.id)) = r.total_questions
    /\ \A q \in test_questions : \E r \in test_results : r.id = q.test_result_id

\* C4: the persistence effects of one submit_test call are all-or-nothing:
\* in every committed state a TestResult is there with all its TestQuestion
\* rows; a step of a call either leaves the committed tables as they are or
\* adds the call's TestResult, all its TestQuestion rows and its analytics
\* update together; a call that fails leaves the tables exactly as they were.
C4_AllOrNothing ==
    /\ []UnitsWhole
    /\ [][\A w \in Workers :
             pc'[w] # pc[w] =>
                 IF pc[w] = "commit" /\ pc'[w] = "respond"
                 THEN WholeUnitAppears(w)
                 ELSE UNCHANGED Tables]_vars

\* a call failed after its TestResult had been inserted, and nothing of it
\* is in the tables
C4_Witness ==
    \E w \in Workers :
        /\ pc[w] = "failed"
        /\ ~IsNone(session[w].test_result)
        /\ session[w].questions # <<>>
        /\ Val(session[w].test_result) \notin test_results
        /\ Range(session[w].questions) \cap test_questions = {}
        /\ test_results = Val(session[w].before)[2]

NothingPending(w) ==
    /\ IsNone(session[w].test_result)
    /\ session[w].questions = <<>>
    /\ IsNone(session[w].analytics)

\* C5: when the model collaborator fails, the call ends with that failure
\* and nothing of the submission is persisted; a retry that succeeds counts
\* the submission exactly once.
C5_ModelFailureLeavesNothing ==
    \A w \in Workers :
        /\ pc[w] = "failed" /\ session[w].outcome = "ModelError" =>
              /\ NothingPending(w)
              /\ test_results = Val(session[w].before)[2]
              /\ test_questions = Val(session[w].before)[3]
              /\ Val(session[w].before)[1] \subseteq student_analytics
        /\ Finished(w) /\ session[w].attempt > 1 =>
              /\ test_results =
                     Val(session[w].before)[2] \cup {Val(session[w].test_result)}
              /\ Val(session[w].test_result) \notin Val(session[w].before)[2]
              /\ Val(Row(session[w].student_id).total_tests_taken) =
                     Val(Val(session[w].loaded).total_tests_taken) + 1
              /\ Val(Row(session[w].student_id).total_tests_taken) =
                     Cardinality({r \in test_results :
                                     r.student_id = session[w].student_id})

\* the retry of a call the collaborator had failed has committed
C5_Witness ==
    \E w \in Workers :
        /\ Finished(w)
        /\ session[w].attempt > 1
        /\ Val(session[w].before)[2] # {}
        /\ Val(Row(session[w].student_id).total_tests_taken) =
               Cardinality(Val(session[w].before)[2]) + 1

\* C6: submit_test with an empty question list is rejected with an
\* InvalidInput outcome before any scoring, and leaves the tables unmodified.
C6_EmptyIsInvalidInput ==
    \A w \in Workers :
        /\ pc[w] \in {"model", "create_result", "add_questions", "update",
                      "commit", "respond", "done", "failed"}
        /\ Val(session[w].submission).questions = <<>>
        => /\ pc[w] = "failed"
           /\ session[w].outcome = "InvalidInput"
           /\ Tables = Val(session[w].before)

\* C7: the first valid submit_test for a student with no StudentAnalytics
\* record succeeds and leaves the record with total_tests_taken = 1 and
\* learning_streak = 1.
C7_FirstSubmissionCreatesRecord ==
    \A w \in Workers :
        /\ pc[w] \in {"commit", "respond", "done", "failed"}
        /\ ~IsNone(session[w].test_result)
        /\ IsNone(session[w].loaded)
        => /\ pc[w] # "failed"
           /\ pc[w] = "done" =>
                 /\ FirstAnalytics(student_analytics, session[w].student_id) # None
                 /\ Row(session[w].student_id).total_tests_taken = Some(1)
                 /\ Row(session[w].student_id).learning_streak = Some(1)

(***************************************************************************)
(* The cached aggregates.                                                  *)
(***************************************************************************)
ResultsOf(student_id) == {r \in test_results : r.student_id = student_id}

\* C8: after any sequence of successful sequential submissions by a student,
\* average_test_score is the arithmetic mean of the student's most recent
\* min(n, 6) TestResult scores.
C8_AverageOverLastSix ==
    \A student_id \in Students :
        ResultsOf(student_id) # {} =>
            Row(student_id).average_test_score =
                Some(Mean(ScoresOf(RecentResults(test_results, student_id,
                                                 PreviousLimit + 1))))

\* more than six results, and the window differs from the whole history
C8_Witness ==
    \E student_id \in Students :
        /\ Cardinality(ResultsOf(student_id)) > PreviousLimit + 1
        /\ Row(student_id).average_test_score #
               Some(Mean(ScoresOf(MostRecentFirst(ResultsOf(student_id)))))
        /\ Row(student_id).average_test_score =
               Some(Mean(ScoresOf(RecentResults(test_results, student_id,
                                                PreviousLimit + 1))))

TopicsIn(questions) == {questions[i].topic : i \in DOMAIN questions}

AskedOn(questions, topic) == {i \in DOMAIN questions : questions[i].topic = topic}

RightOn(questions, topic) ==
    {i \in AskedOn(questions, topic) : questions[i].student_answer = questions[i].correct_answer}

\* 100 * right / asked < 70, and >= 90
AccuracyBelow(questions, topic, percent) ==
    100 * Cardinality(RightOn(questions, topic))
        < percent * Cardinality(AskedOn(questions, topic))

NoRepeats(list) == Cardinality(Range(list)) = Len(list)

\* C9: after every successful submit_test, weak_topics is exactly the set of
\* this submission's topics with accuracy strictly below 70 and
\* strong_topics exactly the set of its topics with accuracy at least 90;
\* what the two held before is discarded.
C9_TopicsReplaced ==
    \A w \in Workers :
        Finished(w) =>
            LET questions == Val(session[w].submission).questions
                row == Row(session[w].student_id)
            IN /\ Range(Val(row.weak_topics)) =
                      {t \in TopicsIn(questions) : AccuracyBelow(questions, t, WeakBelow)}
               /\ Range(Val(row.strong_topics)) =
                      {t \in TopicsIn(questions) : ~AccuracyBelow(questions, t, StrongFrom)}
               /\ NoRepeats(Val(row.weak_topics))
               /\ NoRepeats(Val(row.strong_topics))

\* a topic that was weak before the call is absent from the submission and
\* is weak no more, and the topic of the submission, at an accuracy of
\* exactly 70, is in neither list
C9_Witness ==
    \E w \in Workers :
        /\ Finished(w)
        /\ ~IsNone(Val(session[w].loaded).weak_topics)
        /\ LET questions == Val(session[w].submission).questions
               found == Val(session[w].loaded)
               row == Row(session[w].student_id)
           IN /\ Range(Val(found.weak_topics)) \ TopicsIn(questions) # {}
              /\ \E t \in TopicsIn(questions) :
                     100 * Cardinality(RightOn(questions, t)) =
                         WeakBelow * Cardinality(AskedOn(questions, t))
              /\ Val(row.weak_topics) = <<>>
              /\ Val(row.strong_topics) = <<>>

\* C10: for a non-empty submission whose model call succeeds, the insight
\* payload's time_taken, and the time in the analysis request, are the
\* submission's time_taken, not read from a question.
C10_TimeTakenOfSubmission ==
    \A w \in Workers :
        pc[w] # "idle" /\ Val(session[w].submission).questions # <<>> =>
            /\ session[w].outcome # "AttributeError"
            /\ ~IsNone(session[w].prompt) =>
                   Val(session[w].prompt).time_taken =
                       Val(session[w].submission).time_taken
            /\ ~IsNone(session[w].insights) =>
                   Val(session[w].insights).time_taken =
                       Val(session[w].submission).time_taken

(***************************************************************************)
(* Counts.                                                                 *)
(***************************************************************************)
\* C11: for every persisted TestResult, correct_answers is the number of its
\* TestQuestion rows with is_correct true, and total_questions the number of
\* its TestQuestion rows.
C11_CountsMatchQuestions ==
    \A r \in test_results :
        /\ r.correct_answers = Cardinality({q \in QuestionsOf(r.id) : q.is_correct})
        /\ r.total_questions = Cardinality(QuestionsOf(r.id))

\* a persisted result with a right and a wrong answer
C11_Witness ==
    \E r \in test_results :
        /\ r.total_questions > 1
        /\ r.correct_answers > 0
        /\ r.correct_answers < r.total_questions
        /\ r.correct_answers = Cardinality({q \in QuestionsOf(r.id) : q.is_correct})

\* C12: every successful submit_test raises total_tests_taken by exactly 1,
\* so that with one call at a time total_tests_taken is the number of the
\* student's persisted TestResult rows.
C12_TotalCountsResults ==
    /\ \A w \in Workers :
          Succeeded(w) =>
              Val(Row(session[w].student_id).total_tests_taken) =
                  Val(Val(session[w].loaded).total_tests_taken) + 1
    /\ \A student_id \in Students :
          IF FirstAnalytics(student_analytics, student_id) = None
          THEN ResultsOf(student_id) = {}
          ELSE Val(Row(student_id).total_tests_taken) =
                   Cardinality(ResultsOf(student_id))

C12_Witness ==
    \E w \in Workers :
        /\ Succeeded(w)
        /\ Val(Val(session[w].loaded).total_tests_taken) > 0
        /\ Val(Row(session[w].student_id).total_tests_taken) =
               Cardinality(ResultsOf(session[w].student_id))
        /\ Cardinality(ResultsOf(session[w].student_id)) > 1

\* C13: no database transaction is open while the external model call is in
\* progress.
C13_NoTransactionAcrossModelCall ==
    \A w \in Workers : pc[w] = "model" => ~session[w].in_transaction

(***************************************************************************)
(* Score.                                                                  *)
(***************************************************************************)
\* the questions of a list answered with exactly the expected string
AnsweredRight(questions) ==
    {i \in DOMAIN questions :
        questions[i].student_answer = questions[i].correct_answer}

\* the scores of the calls in progress and of the stored results, each with
\* its numbers of right answers and of questions
Scored ==
    {<<Val(session[w].insights).score,
       Cardinality(AnsweredRight(Val(session[w].submission).questions)),
       Len(Val(session[w].submission).questions)>> :
         w \in {v \in Workers : ~IsNone(session[v].insights)}}
    \cup
    {<<r.score,
       Cardinality({q \in QuestionsOf(r.id) : q.student_answer = q.correct_answer}),
       Cardinality(QuestionsOf(r.id))>> : r \in test_results}

\* C14, as stated: for every non-empty question list the score equals
\* 100 * correct_count / total_count, correct_count counting the questions
\* whose student_answer is the correct_answer; the TestResult stores this
\* value, and it lies in [0, 100].
C14_ScoreIsPercentage ==
    \A s \in Scored :
        /\ s[3] > 0
        /\ s[1] = TrueDiv(100 * s[2], s[3])
        /\ ~FloatLess(Float(100), s[1])

\* C14, amended: for every non-empty question list the score is the float
\* (correct_count / total_count) * 100, the quotient rounded to a float and
\* its product with 100 rounded again, correct_count counting the questions
\* whose student_answer is the correct_answer; the TestResult stores this
\* value, and it lies in [0, 100].
C14_ScoreIsScaledQuotient ==
    /\ \A s \in Scored :
          /\ s[3] > 0
          /\ s[1] = FloatMulInt(TrueDiv(s[2], s[3]), 100)
          /\ ~FloatLess(Float(100), s[1])
    /\ \A w \in Workers :
          ~IsNone(session[w].insights) /\ ~IsNone(session[w].test_result) =>
              Val(session[w].test_result).score = Val(session[w].insights).score

\* a stored score that is not the float 100 * correct_count / total_count
C14_Witness ==
    \E r \in test_results :
        /\ r.correct_answers > 0
        /\ r.score # TrueDiv(100 * r.correct_answers, r.total_questions)
        /\ r.score = FloatMulInt(TrueDiv(r.correct_answers, r.total_questions), 100)
        /\ Cardinality(QuestionsOf(r.id)) = r.total_questions

(***************************************************************************)
(* One analytics row per student.                                          *)
(***************************************************************************)
AnalyticsOf(student_id) ==
    {a \in student_analytics : a.student_id = student_id}

\* C15: in every committed state there is at most one StudentAnalytics row
\* per student id, also when two first submissions of one student interleave
\* and both find no row.
C15_OneAnalyticsPerStudent ==
    \A student_id \in Students : Cardinality(AnalyticsOf(student_id)) <= 1

\* both workers have looked for the row of the same student, found none and
\* ended
C15_Witness ==
    /\ \A w \in Workers :
          /\ pc[w] = "failed"
          /\ ~IsNone(session[w].analytics)
          /\ IsNone(session[w].loaded)
          /\ session[w].student_id = session[1].student_id
    /\ Cardinality(AnalyticsOf(session[1].student_id)) <= 1

(***************************************************************************)
(* Results are written once; reports write nothing.                        *)
(***************************************************************************)
\* the workers whose submit_test commits in this step
Committing == {w \in Workers : pc[w] = "commit" /\ pc'[w] = "respond"}

\* the workers whose get_student_performance moves in this step
Reporting ==
    {w \in Workers : pc[w] \in {"report_analytics", "report_recent"} /\ pc'[w] # pc[w]}

\* C16: each successful submit_test creates exactly one new TestResult, and
\* no operation, for any student, changes or removes a TestResult or a
\* TestQuestion that is already persisted.
C16_ResultsCreatedOnceAndKept ==
    [][/\ test_results \subseteq test_results'
       /\ test_questions \subseteq test_questions'
       /\ Cardinality(test_results' \ test_results) = Cardinality(Committing)
       /\ \A r \in test_results' \ test_results :
             /\ \A o \in test_results : o.id # r.id
             /\ \A w \in Committing : r.student_id = session[w].student_id
       /\ \A q \in test_questions' \ test_questions :
             /\ Committing # {}
             /\ \A o \in test_results : o.id # q.test_result_id]_vars

\* results of both students are stored and a report has run after them
C16_Witness ==
    /\ Cardinality(test_results) > 1
    /\ \E a \in test_results, b \in test_results : a.student_id # b.student_id
    /\ \E w \in Workers : pc[w] = "reported" /\ session[w].previous_results # <<>>

\* C17: get_student_performance for a student without a StudentAnalytics row
\* ends with NotFound, and no step of it, failing or not, changes
\* student_analytics, test_results or test_questions.
C17_ReportIsReadOnly ==
    [][\A w \in Reporting :
          /\ UNCHANGED Tables
          /\ pc[w] = "report_analytics" =>
                /\ pc'[w] = "not_found" <=>
                       IsNone(FirstAnalytics(student_analytics,
                                             session[w].student_id))
                /\ pc'[w] = "not_found" =>
                       /\ session'[w].outcome = "NotFound"
                       /\ IsNone(session'[w].response)
          /\ pc[w] = "report_recent" =>
                /\ pc'[w] = "reported"
                /\ ~IsNone(session'[w].response)]_vars

\* a report has ended with NotFound while the tables hold the other
\* student's rows
C17_Witness ==
    \E w \in Workers :
        /\ pc[w] = "not_found"
        /\ session[w].outcome = "NotFound"
        /\ AnalyticsOf(session[w].student_id) = {}
        /\ student_analytics # {}
        /\ test_results # {}
        /\ Tables = Val(session[w].before)

\* C18: a successful get_student_performance returns the student's
\* min(n, 10) most recent TestResults, most recent first, and the chart is
\* null exactly when that list is empty.
C18_RecentTestsAndChart ==
    \A w \in Workers :
        pc[w] = "reported" =>
            LET out == Val(session[w].response)
                rows == session[w].previous_results
                mine == ResultsOf(session[w].student_id)
            IN /\ Len(out.recent_tests) = Smaller(Cardinality(mine), ReportLimit)
               /\ Len(rows) = Len(out.recent_tests)
               /\ Range(rows) \subseteq mine
               /\ Cardinality(Range(rows)) = Len(rows)
               /\ \A i \in DOMAIN rows :
                     /\ out.recent_tests[i].date = rows[i].completed_at
                     /\ out.recent_tests[i].score = rows[i].score
                     /\ out.recent_tests[i].time_taken = rows[i].time_taken
               /\ \A i \in DOMAIN rows, j \in DOMAIN rows :
                     i < j => rows[i].completed_at >= rows[j].completed_at
               /\ \A r \in mine \ Range(rows), i \in DOMAIN rows :
                     r.completed_at <= rows[i].completed_at
               /\ IsNone(out.performance_chart) <=> out.recent_tests = <<>>

\* more results than the report shows, over more than one day
C18_Witness ==
    \E w \in Workers :
        /\ pc[w] = "reported"
        /\ Cardinality(ResultsOf(session[w].student_id)) > ReportLimit
        /\ Len(Val(session[w].response).recent_tests) = ReportLimit
        /\ ~IsNone(Val(session[w].response).performance_chart)
        /\ Val(session[w].response).recent_tests[1].date >
               Val(session[w].response).recent_tests[ReportLimit].date

(***************************************************************************)
(* Historical framing.                                                     *)
(***************************************************************************)
\* the student's results at most PreviousLimit of which are the latest
PriorWindow(student_id) ==
    LET mine == ResultsOf(student_id)
    IN CHOOSE P \in SUBSET mine :
           /\ Cardinality(P) = Smaller(Cardinality(mine), PreviousLimit)
           /\ \A a \in P, b \in mine \ P : Later(a, b)

\* the mean of the scores of rows, the latest first, as sum(...) / len(...)
MeanOf(rows) == Mean(ScoresOf(MostRecentFirst(rows)))

\* C19: the historical framing is empty when the student has no prior
\* result; otherwise it is the "above average" text exactly when the score
\* is strictly greater than the mean of the up to 5 prior scores, and the
\* "below" text when the score is equal to or lower than that mean.
C19_HistoricalFraming ==
    \A w \in Workers :
        pc[w] = "model" =>
            LET prompt == Val(session[w].prompt)
                prior == PriorWindow(session[w].student_id)
                text == prompt.historical_context.text
            IN /\ prior = {} <=> text = ""
               /\ prior # {} =>
                     /\ FloatLess(MeanOf(prior), prompt.score) <=> text = "above"
                     /\ ~FloatLess(MeanOf(prior), prompt.score) <=> text = "below"

\* more than five prior results, the oldest outside the window lowers the
\* mean of all, and the score equals the mean of the five
C19_Witness ==
    \E w \in Workers :
        /\ pc[w] = "model"
        /\ Cardinality(ResultsOf(session[w].student_id)) > PreviousLimit
        /\ MeanOf(PriorWindow(session[w].student_id)) = Val(session[w].prompt).score
        /\ FloatLess(MeanOf(ResultsOf(session[w].student_id)),
                     Val(session[w].prompt).score)
        /\ Val(session[w].prompt).historical_context.text = "below"

(***************************************************************************)
(* Streak and count.                                                       *)
(***************************************************************************)
\* C20: with one call at a time, from a student without rows, every
\* StudentAnalytics row that has received a submission has
\* 1 <= learning_streak <= total_tests_taken.
C20_StreakWithinCount ==
    \A student_id \in Students :
        ResultsOf(student_id) # {} =>
            /\ AnalyticsOf(student_id) # {}
            /\ Val(Row(student_id).learning_streak) >= 1
            /\ Val(Row(student_id).learning_streak) <=
                   Val(Row(student_id).total_tests_taken)

\* several submissions, the last of them after more than a day
C20_Witness ==
    \E w \in Workers :
        /\ Succeeded(w)
        /\ GapOf(w) > StreakWindowHours
        /\ StreakFound(w) > 1
        /\ Val(Row(session[w].student_id).learning_streak) <=
               Val(Row(session[w].student_id).total_tests_taken)

====
